---- MODULE Spec2Model ----
(***************************************************************************)
(* Debt snapshot comparison and improvement validation (iepathos/debtmap). *)
(*                                                                         *)
(* The repository holds several scripts that compare a "before" and an     *)
(* "after" debtmap report.  Each script is modelled as one action that     *)
(* consumes the two loaded snapshots and leaves its result in `out`.       *)
(*                                                                         *)
(* Programs (value of `prog`):                                             *)
(*   "PV"   src/.prodigy/prodigy-validate-debtmap-improvement.py           *)
(*   "PVD"  src/prodigy_validate_debtmap.py                                *)
(*   "DV"   src/validate_debtmap_improvement.py (class DebtmapValidator)   *)
(*   "AD"   src/analyze_debt.py                                            *)
(*   "ADC"  src/analyze_debt_changes.py                                    *)
(*   "ADI"  src/analyze_debt_improvements.py                               *)
(*   "GCM"  src/generate_commit_message.py                                 *)
(*   "CD"   src/.prodigy/compare_debt.py                                   *)
(*                                                                         *)
(* Python floats are modelled by exact rationals <<numerator,denominator>> *)
(* in lowest terms with a positive denominator.                            *)
(***************************************************************************)
EXTENDS Integers, Sequences, FiniteSets

VARIABLES before, after, pc, prog, out

vars == <<before, after, pc, prog, out>>

(***************************************************************************)
(* Bounds of the model.                                                    *)
(***************************************************************************)
\* Largest number of items loaded into the two snapshots together.
MaxItems == 3

\* The number of entries of the two reports together, for the main programs.
MaxMainItems == 2

\* The most entries of a report whose items are all unchanged.
MaxGapItems == 4

\* The most entries of a report whose items are all in both snapshots.
MaxPairs == 2

(***************************************************************************)
(* Rational arithmetic (the float operations / * + - and comparisons).     *)
(***************************************************************************)
Abs(n) == IF n < 0 THEN -n ELSE n

RECURSIVE Gcd(_, _)
Gcd(a, b) == IF b = 0 THEN a ELSE Gcd(b, a % b)

Rat(n, d) ==
    LET g == Gcd(Abs(n), Abs(d))
        s == IF d < 0 THEN -1 ELSE 1
    IN  <<(s * n) \div g, (s * d) \div g>>

RInt(n) == <<n, 1>>

RAdd(x, y) == Rat(x[1] * y[2] + y[1] * x[2], x[2] * y[2])

RSub(x, y) == Rat(x[1] * y[2] - y[1] * x[2], x[2] * y[2])

RMul(x, y) == Rat(x[1] * y[1], x[2] * y[2])

RDiv(x, y) == Rat(x[1] * y[2], x[2] * y[1])

RLt(x, y) == x[1] * y[2] < y[1] * x[2]

RLe(x, y) == x[1] * y[2] <= y[1] * x[2]

RMax(x, y) == IF RLt(x, y) THEN y ELSE x

RMin(x, y) == IF RLt(y, x) THEN y ELSE x

Max(a, b) == IF a < b THEN b ELSE a

RECURSIVE SumInts(_)
SumInts(s) == IF s = <<>> THEN 0 ELSE Head(s) + SumInts(Tail(s))

\* len([x for x in s if P(x)])
CountIf(s, P(_)) == Cardinality({i \in 1..Len(s) : P(s[i])})

(***************************************************************************)
(* Input snapshots.  An item of a report carries a location, a score       *)
(* (unified_score.final_score in the current "items" format, score in the  *)
(* "debt_items" format) and a complexity (cyclomatic_complexity, resp.     *)
(* complexity).  The other optional fields are absent.                     *)
(***************************************************************************)
Locations == {"a:f", "a_f"}

Scores == {0, 6, 8, 20}

Complexities == {0, 12}

Items == [location : Locations, score : Scores, complexity : Complexities]

(***************************************************************************)
(* A Python dict built by {key(item): item for item in items}: the keys    *)
(* keep the order of their first insertion, a later item with the same key *)
(* overwrites the value.  Modelled as the sequence of the entries          *)
(* [key, value] in key order.                                              *)
(***************************************************************************)
\* d[key] = value
RECURSIVE DictPut(_, _, _)
DictPut(d, key, value) ==
    IF d = <<>> THEN <<[key |-> key, value |-> value]>>
    ELSE IF Head(d).key = key
         THEN <<[key |-> key, value |-> value]>> \o Tail(d)
         ELSE <<Head(d)>> \o DictPut(Tail(d), key, value)

\* {keys[i]: items[i] for i in range(len(items))}
RECURSIVE DictOf(_, _)
DictOf(keys, items) ==
    IF items = <<>> THEN <<>>
    ELSE DictPut(DictOf(SubSeq(keys, 1, Len(keys) - 1),
                        SubSeq(items, 1, Len(items) - 1)),
                 keys[Len(keys)], items[Len(items)])

\* set(d.keys())
Keys(d) == {d[i].key : i \in 1..Len(d)}

\* list(d.values())
Values(d) == [i \in 1..Len(d) |-> d[i].value]

\* d[key], for a key of d
DictGet(d, key) == d[CHOOSE i \in 1..Len(d) : d[i].key = key].value

\* for entry in entries: d[entry.key] = entry.value
RECURSIVE DictPutAll(_, _)
DictPutAll(d, entries) ==
    IF entries = <<>> THEN d
    ELSE DictPutAll(DictPut(d, Head(entries).key, Head(entries).value),
                    Tail(entries))

\* round(x, 1): the nearest multiple of 0.1, a tie going to the even one
Round1(x) ==
    LET n == x[1] * 10
        d == x[2]
        q == n \div d
        r == n - q * d
    IN  IF 2 * r < d THEN Rat(q, 10)
        ELSE IF 2 * r > d THEN Rat(q + 1, 10)
        ELSE IF q % 2 = 0 THEN Rat(q, 10)
        ELSE Rat(q + 1, 10)

\* None, where a score is expected
NoScore == -1

\* {item['location']: item for item in items}
LocationMap(items) == DictOf([i \in 1..Len(items) |-> items[i].location], items)

(***************************************************************************)
(* src/.prodigy/prodigy-validate-debtmap-improvement.py                    *)
(***************************************************************************)
\* cognitive_complexity is absent from the modelled items: .get(..., 0)
PV_calculate_score_from_item(item) ==
    IF item.score > 0 THEN item.score ELSE Max(item.complexity, 0)

PV_extract_complexity_from_item(item) ==
    IF item.complexity > 0 THEN item.complexity ELSE 0

PV_transform_current_format_item(item) ==
    [location   |-> item.location,
     score      |-> PV_calculate_score_from_item(item),
     complexity |-> PV_extract_complexity_from_item(item)]

\* An entry of the legacy "functions" container: file, name, line,
\* debt_score and complexity.
LegacyFunctions ==
    [file : {"a"}, name : {"f"}, line : {1}, debt_score : {0, 9},
     complexity : {0, 12}]

\* The location f"{file_name}:{function_name}:{line_number}"
LegacyLocation(func) == <<func.file, func.name, func.line>>

PV_transform_legacy_format_item(func) ==
    [location |-> LegacyLocation(func),
     score |-> IF func.debt_score > 0 THEN func.debt_score
               ELSE func.complexity,
     complexity |-> func.complexity]

PV_extract_items_from_legacy_format(data) ==
    LET Scored(func) == func.debt_score > 0
        kept == SelectSeq(data, Scored)
    IN  [i \in 1..Len(kept) |-> PV_transform_legacy_format_item(kept[i])]

\* A document without a container key gives [].
PV_extract_debt_items(shape, data) ==
    IF shape = "items"
    THEN [i \in 1..Len(data) |-> PV_transform_current_format_item(data[i])]
    ELSE IF shape = "debt_items" THEN data
    ELSE IF shape = "functions"
    THEN PV_extract_items_from_legacy_format(data)
    ELSE <<>>

PV_calculate_metrics(items) ==
    IF items = <<>>
    THEN [total_items |-> 0, high_priority_items |-> 0, critical_items |-> 0,
          average_score |-> RInt(0), average_complexity |-> RInt(0),
          total_score |-> 0]
    ELSE LET total_score == SumInts([i \in 1..Len(items) |-> items[i].score])
             total_complexity ==
                 SumInts([i \in 1..Len(items) |-> items[i].complexity])
             IsCritical(it) == it.score >= 8
             IsHigh(it) == it.score >= 6
         IN  [total_items |-> Len(items),
              high_priority_items |-> CountIf(items, IsHigh),
              critical_items |-> CountIf(items, IsCritical),
              average_score |-> Rat(total_score, Len(items)),
              average_complexity |-> Rat(total_complexity, Len(items)),
              total_score |-> total_score]

PV_identify_improvements(before_items, after_items) ==
    LET before_map == LocationMap(before_items)
        after_map == LocationMap(after_items)
        Resolved(b) == b.location \notin Keys(after_map)
        Improved(b) ==
            /\ b.location \in Keys(after_map)
            /\ DictGet(after_map, b.location).score < b.score
        UnchangedCritical(b) ==
            /\ b.location \in Keys(after_map)
            /\ ~(DictGet(after_map, b.location).score < b.score)
            /\ b.score >= 8
            /\ DictGet(after_map, b.location).score >= 8
        New(a) == a.location \notin Keys(before_map)
        imp == SelectSeq(Values(before_map), Improved)
        unc == SelectSeq(Values(before_map), UnchangedCritical)
    IN  [resolved_items |-> SelectSeq(Values(before_map), Resolved),
         improved_items |->
             [i \in 1..Len(imp) |->
                 [location |-> imp[i].location,
                  before_score |-> imp[i].score,
                  after_score |-> DictGet(after_map, imp[i].location).score,
                  improvement |->
                      imp[i].score - DictGet(after_map, imp[i].location).score]],
         new_items |-> SelectSeq(Values(after_map), New),
         unchanged_critical |->
             [i \in 1..Len(unc) |-> DictGet(after_map, unc[i].location)]]

\* Mutant: no critical item before counts as everything resolved.
PV_sub_scores_vacuous(before_metrics, after_metrics, improvements) ==
    LET IsCritical(it) == it.score >= 8
        resolved_critical == CountIf(improvements.resolved_items, IsCritical)
        total_critical_before == before_metrics.critical_items
        new_critical == CountIf(improvements.new_items, IsCritical)
    IN  [resolved_priority_score |->
             IF total_critical_before > 0
             THEN RMul(Rat(resolved_critical, total_critical_before), RInt(100))
             ELSE RInt(100),
         score_improvement_pct |->
             IF before_metrics.total_score > 0
             THEN RMul(Rat(before_metrics.total_score - after_metrics.total_score,
                           before_metrics.total_score), RInt(100))
             ELSE RInt(0),
         complexity_improvement_pct |->
             IF RLt(RInt(0), before_metrics.average_complexity)
             THEN RMul(RDiv(RSub(before_metrics.average_complexity,
                                 after_metrics.average_complexity),
                            before_metrics.average_complexity), RInt(100))
             ELSE RInt(0),
         no_regression_score |->
             IF new_critical = 0 THEN RInt(100)
             ELSE RInt(Max(0, 100 - new_critical * 25))]

\* The four sub-scores, before weighting.
PV_sub_scores(before_metrics, after_metrics, improvements) ==
    LET IsCritical(it) == it.score >= 8
        resolved_critical == CountIf(improvements.resolved_items, IsCritical)
        total_critical_before == before_metrics.critical_items
        new_critical == CountIf(improvements.new_items, IsCritical)
    IN  [resolved_priority_score |->
             IF total_critical_before > 0
             THEN RMul(Rat(resolved_critical, total_critical_before), RInt(100))
             ELSE RInt(0),
         score_improvement_pct |->
             IF before_metrics.total_score > 0
             THEN RMul(Rat(before_metrics.total_score - after_metrics.total_score,
                           before_metrics.total_score), RInt(100))
             ELSE RInt(0),
         complexity_improvement_pct |->
             IF RLt(RInt(0), before_metrics.average_complexity)
             THEN RMul(RDiv(RSub(before_metrics.average_complexity,
                                 after_metrics.average_complexity),
                            before_metrics.average_complexity), RInt(100))
             ELSE RInt(0),
         no_regression_score |->
             IF new_critical = 0 THEN RInt(100)
             ELSE RInt(Max(0, 100 - new_critical * 25))]

\* Mutant: the no-regression term is left out of the weighted sum.
PV_weighted_sum_three_terms(s) ==
    RAdd(RAdd(RMul(s.resolved_priority_score, Rat(4, 10)),
              RMul(s.score_improvement_pct, Rat(3, 10))),
         RMul(s.complexity_improvement_pct, Rat(2, 10)))

\* resolved * 0.4 + score * 0.3 + complexity * 0.2 + no_regression * 0.1
PV_weighted_sum(s) ==
    RAdd(RAdd(RAdd(RMul(s.resolved_priority_score, Rat(4, 10)),
                   RMul(s.score_improvement_pct, Rat(3, 10))),
              RMul(s.complexity_improvement_pct, Rat(2, 10))),
         RMul(s.no_regression_score, Rat(1, 10)))

\* Mutant: the result is not clamped.
PV_clamp_missing(x) == x

PV_clamp(x) == RMin(RInt(100), RMax(RInt(0), x))

PV_calculate_improvement_score(before_metrics, after_metrics, improvements) ==
    PV_clamp(PV_weighted_sum(
        PV_sub_scores(before_metrics, after_metrics, improvements)))

\* location.replace(':', '_').replace('/', '_'), on the modelled locations
PV_gap_suffix(location) ==
    CASE location = "a:f" -> "a_f"
      [] location = "b:g" -> "b_g"
      [] location = "c:h" -> "c_h"
      [] location = "d:i" -> "d_i"
      [] OTHER -> location

\* The gap dict, keyed by gap id <<prefix, suffix>>.
PV_identify_gaps(improvements, after_items, improvement_score) ==
    LET StillCritical(improved) == improved.after_score >= 8
        NewCritical(new_item) == new_item.score >= 8
        unchanged == improvements.unchanged_critical
        insufficient == SelectSeq(improvements.improved_items, StillCritical)
        regression == SelectSeq(improvements.new_items, NewCritical)
    IN  DictPutAll(DictPutAll(DictPutAll(<<>>,
            [i \in 1..Len(unchanged) |->
                [key |-> <<"critical_debt",
                           PV_gap_suffix(unchanged[i].location)>>,
                 value |-> [location |-> unchanged[i].location,
                            severity |-> "critical",
                            original_score |-> unchanged[i].score,
                            current_score |-> unchanged[i].score]]]),
            [i \in 1..Len(insufficient) |->
                [key |-> <<"insufficient",
                           PV_gap_suffix(insufficient[i].location)>>,
                 value |-> [location |-> insufficient[i].location,
                            severity |-> "high",
                            original_score |-> insufficient[i].before_score,
                            current_score |-> insufficient[i].after_score,
                            target_score |-> 6]]]),
            [i \in 1..Len(regression) |->
                [key |-> <<"regression",
                           PV_gap_suffix(regression[i].location)>>,
                 value |-> [location |-> regression[i].location,
                            severity |-> "critical",
                            original_score |-> NoScore,
                            current_score |-> regression[i].score]]])

PV_determine_status(improvement_score) ==
    IF RLe(RInt(75), improvement_score) THEN "complete"
    ELSE IF RLe(RInt(40), improvement_score) THEN "incomplete"
    ELSE "failed"

\* Gaps are identified whatever the score.
PV_needs_gaps_always(improvement_score) == TRUE

\* if improvement_score < 75: gaps = identify_gaps(...)
PV_needs_gaps(improvement_score) == RLt(improvement_score, RInt(75))

PV_generate_validation_result(shape, before_data, after_data) ==
    LET before_items == PV_extract_debt_items(shape, before_data)
        after_items == PV_extract_debt_items(shape, after_data)
        before_metrics == PV_calculate_metrics(before_items)
        after_metrics == PV_calculate_metrics(after_items)
        improvements == PV_identify_improvements(before_items, after_items)
        subs == PV_sub_scores(before_metrics, after_metrics, improvements)
        improvement_score ==
            PV_calculate_improvement_score(before_metrics, after_metrics,
                                           improvements)
    IN  [score |-> improvement_score,
         completion_percentage |-> Round1(improvement_score),
         status |-> PV_determine_status(improvement_score),
         gaps |->
             IF PV_needs_gaps(improvement_score)
             THEN PV_identify_gaps(improvements, after_items,
                                   improvement_score)
             ELSE <<>>,
         sub_scores |-> subs,
         improvements |-> improvements,
         before_metrics |-> before_metrics,
         after_metrics |-> after_metrics,
         before_items |-> before_items,
         after_items |-> after_items]

(***************************************************************************)
(* src/prodigy_validate_debtmap.py                                         *)
(***************************************************************************)
\* 'debt_items' / 'items' are taken as they are
PVD_extract_debt_items(data) == data

\* The "functions" container: a function with a positive debt_score is
\* converted to a debt item.
PVD_extract_functions(data) ==
    LET Scored(func) == func.debt_score > 0
        kept == SelectSeq(data, Scored)
    IN  [i \in 1..Len(kept) |->
            [location |-> LegacyLocation(kept[i]),
             score |-> kept[i].debt_score,
             complexity |-> kept[i].complexity]]

\* A document without a container key gives [].
PVD_extract_debt_items_of(shape, data) ==
    IF shape \in {"debt_items", "items"} THEN PVD_extract_debt_items(data)
    ELSE IF shape = "functions"
    THEN PVD_extract_functions(data)
    ELSE <<>>

PVD_calculate_metrics(items) ==
    IF items = <<>>
    THEN [total_items |-> 0, high_priority_items |-> 0, critical_items |-> 0,
          average_score |-> RInt(0), total_debt_score |-> 0,
          average_complexity |-> RInt(0)]
    ELSE LET scores == [i \in 1..Len(items) |-> items[i].score]
             Positive(c) == c > 0
             complexities ==
                 SelectSeq([i \in 1..Len(items) |-> items[i].complexity],
                           Positive)
             IsCritical(it) == it.score >= 8
             IsHigh(it) == it.score >= 6
         IN  [total_items |-> Len(items),
              high_priority_items |-> CountIf(items, IsHigh),
              critical_items |-> CountIf(items, IsCritical),
              average_score |-> Rat(SumInts(scores), Len(scores)),
              total_debt_score |-> SumInts(scores),
              average_complexity |->
                  IF complexities # <<>>
                  THEN Rat(SumInts(complexities), Len(complexities))
                  ELSE RInt(0)]

PVD_compare_items(before_items, after_items) ==
    LET before_map == LocationMap(before_items)
        after_map == LocationMap(after_items)
        After(b) == DictGet(after_map, b.location)
        Resolved(b) == b.location \notin Keys(after_map)
        Improved(b) ==
            /\ b.location \in Keys(after_map)
            /\ After(b).score < b.score
        Worsened(b) ==
            /\ b.location \in Keys(after_map)
            /\ ~(After(b).score < b.score)
            /\ After(b).score > b.score
        UnchangedCritical(b) ==
            /\ b.location \in Keys(after_map)
            /\ ~(After(b).score < b.score)
            /\ ~(After(b).score > b.score)
            /\ b.score >= 8
        New(a) == a.location \notin Keys(before_map)
        imp == SelectSeq(Values(before_map), Improved)
        wor == SelectSeq(Values(before_map), Worsened)
    IN  [resolved |-> SelectSeq(Values(before_map), Resolved),
         improved |->
             [i \in 1..Len(imp) |->
                 [item |-> After(imp[i]),
                  improvement |-> imp[i].score - After(imp[i]).score,
                  before_score |-> imp[i].score,
                  after_score |-> After(imp[i]).score]],
         worsened |->
             [i \in 1..Len(wor) |->
                 [item |-> After(wor[i]),
                  regression |-> After(wor[i]).score - wor[i].score,
                  before_score |-> wor[i].score,
                  after_score |-> After(wor[i]).score]],
         new_items |-> SelectSeq(Values(after_map), New),
         unchanged_critical |->
             SelectSeq(Values(before_map), UnchangedCritical)]

PVD_sub_scores(before_metrics, after_metrics, comparison) ==
    LET IsCritical(it) == it.score >= 8
        IsHigh(it) == it.score >= 6
        new_critical == CountIf(comparison.new_items, IsCritical)
    IN  [resolved_high_priority |->
             IF before_metrics.critical_items > 0
             THEN RMul(Rat(CountIf(comparison.resolved, IsCritical),
                           before_metrics.critical_items), RInt(100))
             ELSE IF before_metrics.high_priority_items > 0
             THEN RMul(Rat(CountIf(comparison.resolved, IsHigh),
                           before_metrics.high_priority_items), RInt(100))
             ELSE RInt(0),
         score_improvement |->
             IF before_metrics.total_debt_score > 0
             THEN RMax(RInt(0),
                       RMul(Rat(before_metrics.total_debt_score
                                    - after_metrics.total_debt_score,
                                before_metrics.total_debt_score), RInt(100)))
             ELSE RInt(0),
         complexity_reduction |->
             IF RLt(RInt(0), before_metrics.average_complexity)
             THEN RMax(RInt(0),
                       RMul(RDiv(RSub(before_metrics.average_complexity,
                                      after_metrics.average_complexity),
                                 before_metrics.average_complexity), RInt(100)))
             ELSE RInt(0),
         new_critical_penalty |-> IF new_critical > 0 THEN RInt(25) ELSE RInt(0)]

PVD_weighted_sum(s) ==
    RAdd(RAdd(RAdd(RMul(s.resolved_high_priority, Rat(4, 10)),
                   RMul(s.score_improvement, Rat(3, 10))),
              RMul(s.complexity_reduction, Rat(2, 10))),
         RMul(RSub(RInt(100), s.new_critical_penalty), Rat(1, 10)))

PVD_clamp(x) == RMin(RInt(100), RMax(RInt(0), x))

PVD_calculate_improvement_score(before_metrics, after_metrics, comparison) ==
    PVD_clamp(PVD_weighted_sum(
        PVD_sub_scores(before_metrics, after_metrics, comparison)))

\* items[:n]
Take(items, n) == SubSeq(items, 1, IF Len(items) < n THEN Len(items) ELSE n)

\* The gap dict, keyed by gap id <<prefix, idx>>.
PVD_identify_gaps(before_items, after_items, comparison, improvement_score) ==
    LET NewCritical(it) == it.score >= 8
        unchanged == Take(comparison.unchanged_critical, 3)
        improved == Take(comparison.improved, 2)
        worsened == Take(comparison.worsened, 2)
        new_critical == Take(SelectSeq(comparison.new_items, NewCritical), 2)
        StillHigh(entry) == entry.value.current_score >= 6
    IN  IF RLe(RInt(75), improvement_score) THEN <<>>
        ELSE DictPutAll(DictPutAll(DictPutAll(DictPutAll(<<>>,
            [i \in 1..Len(unchanged) |->
                [key |-> <<"critical_debt_remaining", i - 1>>,
                 value |-> [location |-> unchanged[i].location,
                            severity |-> "critical",
                            original_score |-> unchanged[i].score,
                            current_score |-> unchanged[i].score]]]),
            SelectSeq(
                [i \in 1..Len(improved) |->
                    [key |-> <<"insufficient_refactoring", i - 1>>,
                     value |-> [location |-> improved[i].item.location,
                                severity |->
                                    IF improved[i].after_score < 8
                                    THEN "medium" ELSE "high",
                                original_score |-> improved[i].before_score,
                                current_score |-> improved[i].after_score,
                                target_score |-> 4]]],
                StillHigh)),
            [i \in 1..Len(worsened) |->
                [key |-> <<"regression_detected", i - 1>>,
                 value |-> [location |-> worsened[i].item.location,
                            severity |->
                                IF worsened[i].after_score >= 8
                                THEN "high" ELSE "medium",
                            original_score |-> worsened[i].before_score,
                            current_score |-> worsened[i].after_score]]]),
            [i \in 1..Len(new_critical) |->
                [key |-> <<"new_critical_debt", i - 1>>,
                 value |-> [location |-> new_critical[i].location,
                            severity |-> "critical",
                            original_score |-> NoScore,
                            current_score |-> new_critical[i].score]]])

PVD_status(improvement_score) ==
    IF RLe(RInt(75), improvement_score) THEN "complete"
    ELSE IF RLe(RInt(40), improvement_score) THEN "incomplete"
    ELSE "failed"

\* main(), after both files were loaded
PVD_main(before_data, after_data) ==
    LET before_items == PVD_extract_debt_items(before_data)
        after_items == PVD_extract_debt_items(after_data)
        before_metrics == PVD_calculate_metrics(before_items)
        after_metrics == PVD_calculate_metrics(after_items)
        comparison == PVD_compare_items(before_items, after_items)
        improvement_score ==
            PVD_calculate_improvement_score(before_metrics, after_metrics,
                                            comparison)
    IN  [score |-> improvement_score,
         completion_percentage |-> Round1(improvement_score),
         status |-> PVD_status(improvement_score),
         gaps |-> PVD_identify_gaps(before_items, after_items, comparison,
                                    improvement_score),
         sub_scores |->
             PVD_sub_scores(before_metrics, after_metrics, comparison),
         comparison |-> comparison,
         before_metrics |-> before_metrics,
         after_metrics |-> after_metrics,
         before_items |-> before_items,
         after_items |-> after_items]

(***************************************************************************)
(* src/validate_debtmap_improvement.py, class DebtmapValidator             *)
(***************************************************************************)
CRITICAL_SCORE_THRESHOLD == 20

HIGH_SCORE_THRESHOLD == 10

MEDIUM_SCORE_THRESHOLD == 5

GOOD_THRESHOLD == 75

MINOR_THRESHOLD == 40

\* DebtItem.from_dict; debt_type and transitive_coverage are absent
DV_from_dict(data) ==
    [location |-> data.location,
     unified_score |-> data.score,
     complexity |-> data.complexity,
     coverage |-> 0]

DV_load_data(data) == [i \in 1..Len(data) |-> DV_from_dict(data[i])]

DV_categorize_items(items) ==
    LET Critical(it) == it.unified_score >= CRITICAL_SCORE_THRESHOLD
        High(it) ==
            /\ ~Critical(it)
            /\ it.unified_score >= HIGH_SCORE_THRESHOLD
        Medium(it) ==
            /\ ~Critical(it)
            /\ it.unified_score < HIGH_SCORE_THRESHOLD
            /\ it.unified_score >= MEDIUM_SCORE_THRESHOLD
        Low(it) == it.unified_score < MEDIUM_SCORE_THRESHOLD
    IN  [critical |-> SelectSeq(items, Critical),
         high |-> SelectSeq(items, High),
         medium |-> SelectSeq(items, Medium),
         low |-> SelectSeq(items, Low)]

\* The orders in which a Python set of keys can be iterated.
SetOrders(S) ==
    {order \in [1..Cardinality(S) -> S] :
        \A i, j \in 1..Cardinality(S) : order[i] = order[j] => i = j}

\* improved and improved_map are filled in the iteration order of the set
\* of common keys; order is the order in which that set yields the keys.
DV_compare_items(before_items, after_items, order) ==
    LET before_map == LocationMap(before_items)
        after_map == LocationMap(after_items)
        Resolved(b) == b.location \notin Keys(after_map)
        New(a) == a.location \notin Keys(before_map)
        Improved(key) ==
            /\ key \in Keys(before_map) \cap Keys(after_map)
            /\ LET b == DictGet(before_map, key)
                   a == DictGet(after_map, key)
               IN  \/ a.unified_score < b.unified_score
                   \/ a.complexity < b.complexity
                   \/ a.coverage > b.coverage
        keys == SelectSeq(order, Improved)
    IN  [resolved |-> SelectSeq(Values(before_map), Resolved),
         new_items |-> SelectSeq(Values(after_map), New),
         improved |-> [i \in 1..Len(keys) |-> DictGet(after_map, keys[i])],
         improved_map |->
             [i \in 1..Len(keys) |->
                 [key |-> keys[i],
                  value |-> <<DictGet(before_map, keys[i]),
                              DictGet(after_map, keys[i])>>]]]

DV_average(values) == Rat(SumInts(values), Max(1, Len(values)))

DV_sub_scores(before_items, after_items, new_items) ==
    LET critical_before == Len(DV_categorize_items(before_items).critical)
        critical_after == Len(DV_categorize_items(after_items).critical)
        before_avg_score ==
            DV_average([i \in 1..Len(before_items) |->
                            before_items[i].unified_score])
        after_avg_score ==
            DV_average([i \in 1..Len(after_items) |->
                            after_items[i].unified_score])
        before_avg_complexity ==
            DV_average([i \in 1..Len(before_items) |->
                            before_items[i].complexity])
        after_avg_complexity ==
            DV_average([i \in 1..Len(after_items) |->
                            after_items[i].complexity])
        NewCritical(it) == it.unified_score >= CRITICAL_SCORE_THRESHOLD
    IN  [critical_resolved_pct |->
             IF critical_before > 0
             THEN RMax(RInt(0),
                       RMul(Rat(critical_before - critical_after,
                                critical_before), RInt(100)))
             ELSE RInt(0),
         score_improvement_pct |->
             RMax(RInt(0),
                  RMul(RDiv(RSub(before_avg_score, after_avg_score),
                            RMax(RInt(1), before_avg_score)), RInt(100))),
         complexity_reduction_pct |->
             RMax(RInt(0),
                  RMul(RDiv(RSub(before_avg_complexity, after_avg_complexity),
                            RMax(RInt(1), before_avg_complexity)), RInt(100))),
         no_regression_score |->
             IF CountIf(new_items, NewCritical) = 0 THEN RInt(100)
             ELSE RInt(0)]

DV_weighted_sum(s) ==
    RAdd(RAdd(RAdd(RMul(Rat(4, 10), s.critical_resolved_pct),
                   RMul(Rat(3, 10), s.score_improvement_pct)),
              RMul(Rat(2, 10), s.complexity_reduction_pct)),
         RMul(Rat(1, 10), s.no_regression_score))

DV_calculate_improvement_score(before_items, after_items, new_items) ==
    RMin(RInt(100),
         DV_weighted_sum(DV_sub_scores(before_items, after_items, new_items)))

\* One step of the loop over improved_map: the gap id counts the gaps
\* made so far.
RECURSIVE DV_insufficient_gaps(_, _)
DV_insufficient_gaps(gaps, improved_entries) ==
    IF improved_entries = <<>> THEN gaps
    ELSE LET before_item == Head(improved_entries).value[1]
             after_item == Head(improved_entries).value[2]
         IN  DV_insufficient_gaps(
                 IF after_item.complexity > 8
                 THEN DictPut(gaps,
                          <<"insufficient_refactoring", Len(gaps) + 1>>,
                          [location |-> after_item.location,
                           severity |-> "medium",
                           original_score |-> NoScore,
                           current_score |-> NoScore])
                 ELSE gaps,
                 Tail(improved_entries))

\* The gap dict, keyed by gap id <<prefix, number>>.
DV_identify_gaps(after_items, new_items, improved_map) ==
    LET NewCritical(it) == it.unified_score >= CRITICAL_SCORE_THRESHOLD
        critical_remaining == Take(DV_categorize_items(after_items).critical, 3)
        new_critical == Take(SelectSeq(new_items, NewCritical), 2)
    IN  DictPutAll(
            DV_insufficient_gaps(
                DictPutAll(<<>>,
                    [i \in 1..Len(critical_remaining) |->
                        [key |-> <<"critical_debt_remaining", i>>,
                         value |->
                             [location |-> critical_remaining[i].location,
                              severity |-> "critical",
                              original_score |-> NoScore,
                              current_score |->
                                  critical_remaining[i].unified_score]]]),
                improved_map),
            [i \in 1..Len(new_critical) |->
                [key |-> <<"regression_detected", i>>,
                 value |-> [location |-> new_critical[i].location,
                            severity |-> "high",
                            original_score |-> NoScore,
                            current_score |-> new_critical[i].unified_score]]])

DV_status(improvement_score) ==
    IF RLe(RInt(GOOD_THRESHOLD), improvement_score) THEN "complete"
    ELSE IF RLe(RInt(MINOR_THRESHOLD), improvement_score) THEN "incomplete"
    ELSE "insufficient"

\* generate_summary()
DV_generate_summary(items) ==
    [total_items |-> Len(items),
     critical_items |-> Len(DV_categorize_items(items).critical),
     high_priority_items |-> Len(DV_categorize_items(items).high),
     average_score |->
         DV_average([i \in 1..Len(items) |-> items[i].unified_score]),
     average_complexity |->
         DV_average([i \in 1..Len(items) |-> items[i].complexity]),
     average_coverage |->
         DV_average([i \in 1..Len(items) |-> items[i].coverage])]

\* validate(), load_data() having succeeded
DV_validate(before_data, after_data, order) ==
    LET before_items == DV_load_data(before_data)
        after_items == DV_load_data(after_data)
        cmp == DV_compare_items(before_items, after_items, order)
        improvement_score ==
            DV_calculate_improvement_score(before_items, after_items,
                                           cmp.new_items)
    IN  [score |-> improvement_score,
         completion_percentage |-> Round1(improvement_score),
         status |-> DV_status(improvement_score),
         gaps |->
             IF DV_status(improvement_score) # "complete"
             THEN DV_identify_gaps(after_items, cmp.new_items,
                                   cmp.improved_map)
             ELSE <<>>,
         sub_scores |->
             DV_sub_scores(before_items, after_items, cmp.new_items),
         comparison |-> cmp,
         before_summary |-> DV_generate_summary(before_items),
         after_summary |-> DV_generate_summary(after_items),
         before_items |-> before_items,
         after_items |-> after_items]

(***************************************************************************)
(* src/analyze_debt.py                                                     *)
(***************************************************************************)
\* f"{file}::{name}::{line}": the location of the modelled item
AD_create_item_key(item) == item.location

\* item.get('unified_score', {}).get('final_score', 0)
AD_final_score(item) == item.score

\* {create_item_key(item): item for item in items}, built by the two loops
AD_item_map(items) ==
    DictOf([i \in 1..Len(items) |-> AD_create_item_key(items[i])], items)

AD_resolved(before_keys, after_keys) == before_keys \ after_keys

AD_new_items(before_keys, after_keys) == after_keys \ before_keys

AD_common(before_keys, after_keys) == before_keys \cap after_keys

\* The lists improved / regressed / unchanged are filled in the iteration
\* order of a set; they are modelled as sets.
AD_analyze_debt_changes(before_items, after_items) ==
    LET before_map == AD_item_map(before_items)
        after_map == AD_item_map(after_items)
        before_keys == Keys(before_map)
        after_keys == Keys(after_map)
        common == AD_common(before_keys, after_keys)
        before_score(key) == AD_final_score(DictGet(before_map, key))
        after_score(key) == AD_final_score(DictGet(after_map, key))
    IN  [before_keys |-> before_keys,
         after_keys |-> after_keys,
         resolved |-> AD_resolved(before_keys, after_keys),
         new_items |-> AD_new_items(before_keys, after_keys),
         common |-> common,
         improved |->
             {<<key, before_score(key), after_score(key),
                before_score(key) - after_score(key)>> :
                 key \in {k \in common : after_score(k) < before_score(k)}},
         regressed |->
             {<<key, before_score(key), after_score(key),
                after_score(key) - before_score(key)>> :
                 key \in {k \in common : /\ ~(after_score(k) < before_score(k))
                                         /\ after_score(k) > before_score(k)}},
         unchanged |->
             {k \in common : /\ ~(after_score(k) < before_score(k))
                             /\ ~(after_score(k) > before_score(k))},
         total_before |->
             SumInts([i \in 1..Len(before_items) |->
                          AD_final_score(before_items[i])]),
         total_after |->
             SumInts([i \in 1..Len(after_items) |->
                          AD_final_score(after_items[i])]),
         items_before |-> Len(before_items),
         items_after |-> Len(after_items),
         before_map |-> before_map,
         after_map |-> after_map]

(***************************************************************************)
(* src/analyze_debt_changes.py                                             *)
(***************************************************************************)
\* unified_score.final_score: 5, 5.005, 6
ADCScores == {RInt(5), Rat(1001, 200), RInt(6)}

\* An item of the report: its location and its unified final score.
ADCItems == [location : Locations, final_score : ADCScores]

\* f"{file_path}::{function}::{line}"
ADC_create_item_key(item) == item.location

ADC_item_map(items) ==
    DictOf([i \in 1..Len(items) |-> ADC_create_item_key(items[i])], items)

\* The branch taken for one common key.
ADC_classify(before_score, after_score) ==
    IF RLt(after_score, before_score) THEN "improved"
    ELSE IF RLt(before_score, after_score) THEN "regressed"
    ELSE "unchanged"

ADC_analyze_changes(before_data, after_data) ==
    LET before_items == ADC_item_map(before_data)
        after_items == ADC_item_map(after_data)
        before_keys == Keys(before_items)
        after_keys == Keys(after_items)
        before_score(key) == DictGet(before_items, key).final_score
        after_score(key) == DictGet(after_items, key).final_score
        Changed(class) ==
            {<<key, before_score(key), after_score(key)>> :
                key \in {k \in before_keys \cap after_keys :
                    ADC_classify(before_score(k), after_score(k)) = class}}
    IN  [resolved |->
             {<<key, before_score(key), RInt(0)>> :
                 key \in before_keys \ after_keys},
         improved |-> Changed("improved"),
         regressed |-> Changed("regressed"),
         unchanged |-> Changed("unchanged"),
         new_items |->
             {<<key, RInt(0), after_score(key)>> :
                 key \in after_keys \ before_keys},
         items_before |-> Len(before_data),
         items_after |-> Len(after_data)]

(***************************************************************************)
(* src/analyze_debt_improvements.py                                        *)
(*                                                                         *)
(* The report printed by analyze_debt_changes.  A percentage is the record *)
(* of its value, or of the exception its division raises.                  *)
(***************************************************************************)
\* unified_score.final_score
ADIScores == {0, 5}

\* item.get('categories', [])
ADICategories == {<<>>, <<"c">>}

ADIItems ==
    [location : Locations, final_score : ADIScores,
     categories : ADICategories]

\* key = (location.get('file', ''), location.get('function', ''))
ADI_key(item) == item.location

ADI_item_map(items) ==
    DictOf([i \in 1..Len(items) |-> ADI_key(items[i])], items)

\* (part / whole) * 100
ADI_pct(part, whole) ==
    IF whole = 0
    THEN [error |-> "ZeroDivisionError", value |-> RInt(0)]
    ELSE [error |-> "none",
          value |-> RMul(RDiv(RInt(part), RInt(whole)), RInt(100))]

\* if before > 0: ((before - after) / before) * 100, else nothing printed
ADI_guarded_pct(before_score, after_score) ==
    IF before_score > 0
    THEN <<ADI_pct(before_score - after_score, before_score)>>
    ELSE <<>>

\* sum of final_score over the items that list the category
RECURSIVE ADI_category_score(_, _)
ADI_category_score(items, category) ==
    IF items = <<>> THEN 0
    ELSE (IF \E i \in 1..Len(Head(items).categories) :
                 Head(items).categories[i] = category
          THEN Head(items).final_score ELSE 0)
             + ADI_category_score(Tail(items), category)

\* sorted(entries, key=reduction, reverse=True): stable
RECURSIVE ADI_sorted(_)
ADI_sorted(entries) ==
    IF entries = <<>> THEN <<>>
    ELSE LET rest == ADI_sorted(Tail(entries))
             ahead ==
                 SelectSeq(rest,
                           LAMBDA e : e.reduction > Head(entries).reduction)
             behind ==
                 SelectSeq(rest,
                           LAMBDA e : e.reduction <= Head(entries).reduction)
         IN  ahead \o <<Head(entries)>> \o behind

ADI_analyze_debt_changes(before_items, after_items) ==
    LET before_map == ADI_item_map(before_items)
        after_map == ADI_item_map(after_items)
        after_score(key) == DictGet(after_map, key).final_score
        Entry(e) ==
            [key |-> e.key,
             before_score |-> e.value.final_score,
             after_score |->
                 IF e.key \in Keys(after_map) THEN after_score(e.key)
                 ELSE 0,
             reduction |->
                 IF e.key \in Keys(after_map)
                 THEN e.value.final_score - after_score(e.key)
                 ELSE e.value.final_score,
             resolved |-> e.key \notin Keys(after_map)]
        before_entries == [i \in 1..Len(before_map) |-> Entry(before_map[i])]
        resolved_items == SelectSeq(before_entries, LAMBDA e : e.resolved)
        improved_items ==
            SelectSeq(before_entries,
                      LAMBDA e : ~e.resolved
                                     /\ e.after_score < e.before_score)
        regressed_items ==
            SelectSeq(before_entries,
                      LAMBDA e : /\ ~e.resolved
                                 /\ ~(e.after_score < e.before_score)
                                 /\ e.after_score > e.before_score)
        new_items ==
            SelectSeq(after_map, LAMBDA e : e.key \notin Keys(before_map))
        total_before ==
            SumInts([i \in 1..Len(before_items) |->
                         before_items[i].final_score])
        total_after ==
            SumInts([i \in 1..Len(after_items) |->
                         after_items[i].final_score])
        categories ==
            UNION {{it.categories[i] : i \in 1..Len(it.categories)} :
                      it \in {before_items[j] : j \in 1..Len(before_items)}
                                \cup {after_items[j] :
                                          j \in 1..Len(after_items)}}
        improvements ==
            Take(Take(ADI_sorted(resolved_items \o improved_items), 10), 5)
        top_improved == SelectSeq(improvements, LAMBDA e : ~e.resolved)
        top_regressed == Take(regressed_items, 5)
        reduction_pct ==
            [i \in 1..Len(top_improved) |->
                 ADI_pct(top_improved[i].before_score
                             - top_improved[i].after_score,
                         top_improved[i].before_score)]
        increase_pct ==
            [i \in 1..Len(top_regressed) |->
                 ADI_pct(top_regressed[i].after_score
                             - top_regressed[i].before_score,
                         top_regressed[i].before_score)]
        Raises(pcts) ==
            \E i \in 1..Len(pcts) : pcts[i].error # "none"
    IN  [raised |->
             IF Raises(reduction_pct) \/ Raises(increase_pct)
             THEN "ZeroDivisionError" ELSE "none",
         total_before |-> total_before,
         total_after |-> total_after,
         improvement_pct |-> ADI_guarded_pct(total_before, total_after),
         change_pct |->
             [category \in categories |->
                  ADI_guarded_pct(
                      ADI_category_score(before_items, category),
                      ADI_category_score(after_items, category))],
         reduction_pct |-> reduction_pct,
         increase_pct |-> increase_pct,
         resolved |-> Len(resolved_items),
         improved |-> Len(improved_items),
         regressed |-> Len(regressed_items),
         new_items |-> Len(new_items)]

(***************************************************************************)
(* src/generate_commit_message.py                                          *)
(*                                                                         *)
(* The category breakdown of generate_commit_message, on the items of      *)
(* analyze_debt_improvements.py (location, final score, categories).       *)
(***************************************************************************)
\* key = (location.get('file', ''), location.get('function', ''))
\* before_map[key] = item
GCM_item_map(items) ==
    DictOf([i \in 1..Len(items) |-> items[i].location], items)

\* for category in item.get('categories', []): ... += score, once for every
\* entry of the list that is the category
GCM_times(item, category) ==
    Cardinality({i \in 1..Len(item.categories) :
                     item.categories[i] = category})

\* the sum of what a loop over the items adds to one category
RECURSIVE GCM_category_sum(_, _)
GCM_category_sum(items, category) ==
    IF items = <<>> THEN 0
    ELSE GCM_times(Head(items), category) * Head(items).final_score
             + GCM_category_sum(Tail(items), category)

\* ((before - after) / before) * 100, printed only if before > 0
GCM_change_pct(before_score, after_score) ==
    IF before_score > 0
    THEN <<RMul(RDiv(RInt(before_score - after_score), RInt(before_score)),
                RInt(100))>>
    ELSE <<>>

generate_commit_message(before_items, after_items) ==
    LET before_map == GCM_item_map(before_items)
        after_map == GCM_item_map(after_items)
        resolved_entries ==
            SelectSeq(before_map, LAMBDA e : e.key \notin Keys(after_map))
        resolved_items ==
            [i \in 1..Len(resolved_entries) |-> resolved_entries[i].value]
        categories ==
            UNION {{it.categories[i] : i \in 1..Len(it.categories)} :
                      it \in {before_items[j] : j \in 1..Len(before_items)}
                                \cup {after_items[j] :
                                          j \in 1..Len(after_items)}}
        resolved_count(category) ==
            SumInts([i \in 1..Len(resolved_items) |->
                         GCM_times(resolved_items[i], category)])
        category_improvements ==
            [category \in categories |->
                 [before |-> GCM_category_sum(resolved_items, category)
                                 + GCM_category_sum(before_items, category),
                  after |-> GCM_category_sum(after_items, category),
                  resolved_count |-> resolved_count(category)]]
    IN  [resolved |-> Len(resolved_items),
         total_before |->
             SumInts([i \in 1..Len(before_items) |->
                          before_items[i].final_score]),
         total_after |->
             SumInts([i \in 1..Len(after_items) |->
                          after_items[i].final_score]),
         category_improvements |-> category_improvements,
         change_pct |->
             [category \in categories |->
                  GCM_change_pct(category_improvements[category].before,
                                 category_improvements[category].after)]]

(***************************************************************************)
(* src/.prodigy/compare_debt.py                                            *)
(*                                                                         *)
(* An entry of the report is tagged "File" or "Function" and carries a     *)
(* metrics object.  A metric that is absent from the object is Absent.     *)
(***************************************************************************)
Absent == <<0, 0>>

CDTags == {"File", "Function"}

CDPaths == {"p"}

CDNames == {"f"}

\* total_complexity: 0, 5, 5.005
CDTotals == {RInt(0), RInt(5), Rat(1001, 200)}

CDMetrics ==
    [path : CDPaths, function_name : CDNames,
     total_complexity : CDTotals, complexity : {Absent},
     cognitive_complexity : {Absent}, max_complexity : {0, 11},
     avg_complexity : {0}, is_god_object : {FALSE}]

CDItems == [tag : CDTags, metrics : CDMetrics]

\* An entry of data['items'] is an object with one key, its tag.
CDAnyTags == CDTags \cup {"Other"}

CDEntries == [tag : CDAnyTags, metrics : CDMetrics]

CD_extract_item(entry) ==
    IF entry.tag = "File"
    THEN [type |-> "file", path |-> entry.metrics.path, name |-> "",
          metrics |-> entry.metrics]
    ELSE [type |-> "function", path |-> entry.metrics.path,
          name |-> entry.metrics.function_name, metrics |-> entry.metrics]

CD_extract_items(data) ==
    LET Known(entry) == entry.tag \in {"File", "Function"}
        kept == SelectSeq(data, Known)
    IN  [i \in 1..Len(kept) |-> CD_extract_item(kept[i])]

CD_get_item_key(item) ==
    IF item.type = "file" THEN <<"file", item.path, "">>
    ELSE <<"function", item.path, item.name>>

CD_get_score(item) ==
    IF item.metrics.total_complexity # Absent
    THEN item.metrics.total_complexity
    ELSE IF item.metrics.complexity # Absent THEN item.metrics.complexity
    ELSE IF item.metrics.cognitive_complexity # Absent
    THEN item.metrics.cognitive_complexity
    ELSE RInt(0)

CD_is_problematic(item) ==
    LET cognitive ==
            IF item.metrics.cognitive_complexity # Absent
            THEN item.metrics.cognitive_complexity
            ELSE RInt(0)
    IN  \/ item.metrics.is_god_object
        \/ item.metrics.max_complexity > 10
        \/ item.metrics.avg_complexity > 5
        \/ RLt(RInt(15), cognitive)

\* Mutant: no tolerance.
CD_epsilon_zero == Rat(0, 1)

\* 0.01
CD_epsilon == Rat(1, 100)

\* The branch taken for one common key.
CD_classify(before_item, after_item) ==
    LET before_score == CD_get_score(before_item)
        after_score == CD_get_score(after_item)
        before_problematic == CD_is_problematic(before_item)
        after_problematic == CD_is_problematic(after_item)
    IN  IF \/ RLt(after_score, RSub(before_score, CD_epsilon))
           \/ (before_problematic /\ ~after_problematic)
        THEN "improved"
        ELSE IF \/ RLt(RAdd(before_score, CD_epsilon), after_score)
                \/ (~before_problematic /\ after_problematic)
        THEN "regressed"
        ELSE "unchanged"

CD_item_map(items) ==
    DictOf([i \in 1..Len(items) |-> CD_get_item_key(items[i])], items)

\* Mutant: the keys of the after report are not taken out.
CD_resolved_all_before(before_keys, after_keys) == before_keys

CD_resolved(before_keys, after_keys) == before_keys \ after_keys

CD_new_items(before_keys, after_keys) == after_keys \ before_keys

CD_common_items(before_keys, after_keys) == before_keys \cap after_keys

\* improved / regressed / unchanged are filled in the iteration order of a
\* set; they are modelled as sets.
CD_analyze_changes(before_data, after_data) ==
    LET before_items == CD_extract_items(before_data)
        after_items == CD_extract_items(after_data)
        before_map == CD_item_map(before_items)
        after_map == CD_item_map(after_items)
        before_keys == Keys(before_map)
        after_keys == Keys(after_map)
        resolved == CD_resolved(before_keys, after_keys)
        new_items == CD_new_items(before_keys, after_keys)
        common_items == CD_common_items(before_keys, after_keys)
        B(key) == DictGet(before_map, key)
        A(key) == DictGet(after_map, key)
        Class(key) == CD_classify(B(key), A(key))
        change_pct(key, change) ==
            IF RLt(RInt(0), CD_get_score(B(key)))
            THEN RMul(RDiv(change, CD_get_score(B(key))), RInt(100))
            ELSE RInt(0)
    IN  [before_keys |-> before_keys,
         after_keys |-> after_keys,
         resolved_keys |-> resolved,
         new_keys |-> new_items,
         common_keys |-> common_items,
         before_count |-> Len(before_items),
         after_count |-> Len(after_items),
         resolved |->
             {<<key, CD_get_score(B(key))>> :
                 key \in {k \in resolved : CD_is_problematic(B(k))}},
         new_items |->
             {<<key, CD_get_score(A(key))>> :
                 key \in {k \in new_items : CD_is_problematic(A(k))}},
         improved |->
             {[key |-> key,
               before |-> CD_get_score(B(key)),
               after |-> CD_get_score(A(key)),
               change |-> RSub(CD_get_score(B(key)), CD_get_score(A(key))),
               change_pct |->
                   change_pct(key, RSub(CD_get_score(B(key)),
                                        CD_get_score(A(key)))),
               was_problematic |-> CD_is_problematic(B(key)),
               is_problematic |-> CD_is_problematic(A(key))] :
                 key \in {k \in common_items : Class(k) = "improved"}},
         regressed |->
             {[key |-> key,
               before |-> CD_get_score(B(key)),
               after |-> CD_get_score(A(key)),
               change |-> RSub(CD_get_score(A(key)), CD_get_score(B(key))),
               change_pct |->
                   change_pct(key, RSub(CD_get_score(A(key)),
                                        CD_get_score(B(key))))] :
                 key \in {k \in common_items : Class(k) = "regressed"}},
         unchanged |-> {k \in common_items : Class(k) = "unchanged"},
         before_map |-> before_map,
         after_map |-> after_map]

(***************************************************************************)
(* The main programs of the three validators.                              *)
(*                                                                         *)
(* A report file is described by its kind:                                 *)
(*   "items", "debt_items"  a JSON object with that container key          *)
(*   "none"     a JSON object with other keys but no container key         *)
(*   "missing"  no such file, or not JSON                                  *)
(*   "denied"   a file that cannot be opened (PermissionError)             *)
(* The output path either has a directory part ("dir") or is a bare file   *)
(* name ("bare").  An outcome records whether the result document was      *)
(* written, the exception that escaped, and the document.                  *)
(***************************************************************************)
FileKinds == {"items", "debt_items", "none", "missing", "denied"}

OutputPaths == {"dir", "bare"}

\* The kinds of a pair of reports: two parsed reports are of the same
\* format unless one has no container key.
FilePairs ==
    {pair \in FileKinds \X FileKinds :
        pair[1] \in {"items", "debt_items"} /\ pair[2] \in {"items", "debt_items"}
            => pair[1] = pair[2]}

\* The container key under which the entries of the pair are found.
ShapeOf(before_kind, after_kind) ==
    IF before_kind \in {"items", "debt_items"} THEN before_kind ELSE after_kind

NoDoc == [status |-> "none"]

Raised(exception, before_kind, after_kind) ==
    [written |-> FALSE, raised |-> exception, before_kind |-> before_kind,
     after_kind |-> after_kind, doc |-> NoDoc]

Written(doc, before_kind, after_kind) ==
    [written |-> TRUE, raised |-> "none", before_kind |-> before_kind,
     after_kind |-> after_kind, doc |-> doc]

\* A message of the document: its text and the report files it names.
Message(text, count, names) ==
    [text |-> text, count |-> count, names |-> names]

\* The document written when a report could not be loaded.
LoadFailureDoc(text, names) ==
    [completion_percentage |-> RInt(0),
     status |-> "failed",
     improvements |-> <<>>,
     remaining_issues |-> <<Message(text, 0, names)>>,
     gaps |-> <<>>,
     computed |-> FALSE]

\* s + [m] if cond else s
AppendIf(s, cond, m) == IF cond THEN Append(s, m) ELSE s

PV_build_improvement_descriptions(improvements, before_metrics, after_metrics) ==
    LET IsCritical(it) == it.score >= 8
        resolved_critical == CountIf(improvements.resolved_items, IsCritical)
    IN  AppendIf(AppendIf(AppendIf(AppendIf(<<>>,
            resolved_critical > 0,
            Message("Resolved critical debt items", resolved_critical, {})),
            improvements.improved_items # <<>>,
            Message("Improved functions",
                    Len(improvements.improved_items), {})),
            RLt(after_metrics.average_complexity,
                before_metrics.average_complexity),
            Message("Reduced average complexity", 0, {})),
            after_metrics.total_score < before_metrics.total_score,
            Message("Reduced total debt score",
                    before_metrics.total_score - after_metrics.total_score,
                    {}))

PV_build_remaining_issues(improvements) ==
    LET IsCritical(it) == it.score >= 8
        new_critical == CountIf(improvements.new_items, IsCritical)
    IN  AppendIf(AppendIf(<<>>,
            improvements.unchanged_critical # <<>>,
            Message("critical debt items still present",
                    Len(improvements.unchanged_critical), {})),
            new_critical > 0,
            Message("new critical issues introduced", new_critical, {}))

\* main(), the paths having been parsed
PV_main(before_kind, after_kind, output, before_data, after_data) ==
    LET result ==
            PV_generate_validation_result(ShapeOf(before_kind, after_kind),
                                          before_data, after_data)
        doc ==
            IF before_kind = "missing" \/ after_kind = "missing"
            THEN LoadFailureDoc("Unable to load debtmap JSON files", {})
            ELSE [completion_percentage |-> result.completion_percentage,
                  status |-> result.status,
                  improvements |->
                      PV_build_improvement_descriptions(
                          result.improvements, result.before_metrics,
                          result.after_metrics),
                  remaining_issues |->
                      PV_build_remaining_issues(result.improvements),
                  gaps |-> result.gaps,
                  computed |-> TRUE]
    IN  IF before_kind = "denied" \/ after_kind = "denied"
        THEN Raised("PermissionError", before_kind, after_kind)
        ELSE IF output = "bare"
        THEN Raised("FileNotFoundError", before_kind, after_kind)
        ELSE Written(doc, before_kind, after_kind)

PVD_format_improvements(comparison, before_metrics, after_metrics) ==
    LET IsCritical(it) == it.score >= 8
        IsHigh(it) == it.score >= 6
        critical_resolved == CountIf(comparison.resolved, IsCritical)
        high_resolved == CountIf(comparison.resolved, IsHigh)
    IN  AppendIf(AppendIf(AppendIf(<<>>,
            comparison.resolved # <<>>,
            IF critical_resolved > 0
            THEN Message("Resolved critical debt items", critical_resolved, {})
            ELSE IF high_resolved > 0
            THEN Message("Resolved high-priority debt items",
                         high_resolved, {})
            ELSE Message("Resolved debt items", Len(comparison.resolved), {})),
            RLt(after_metrics.average_complexity,
                before_metrics.average_complexity),
            Message("Reduced average complexity", 0, {})),
            comparison.improved # <<>>,
            Message("Improved existing debt items",
                    Len(comparison.improved), {}))

PVD_format_remaining_issues(comparison, after_metrics) ==
    LET IsCritical(it) == it.score >= 8
        critical_new == CountIf(comparison.new_items, IsCritical)
    IN  AppendIf(AppendIf(AppendIf(AppendIf(<<>>,
            comparison.unchanged_critical # <<>>,
            Message("critical debt items still present",
                    Len(comparison.unchanged_critical), {})),
            comparison.new_items # <<>>,
            IF critical_new > 0
            THEN Message("new critical debt items introduced",
                         critical_new, {})
            ELSE Message("new debt items introduced",
                         Len(comparison.new_items), {})),
            comparison.worsened # <<>>,
            Message("items worsened", Len(comparison.worsened), {})),
            after_metrics.critical_items > 0,
            Message("critical items remain", after_metrics.critical_items, {}))

\* main(), the paths having been parsed.  The entries of an "items" report
\* carry their location as an object, which compare_items cannot use as a
\* dict key (TypeError: unhashable type).
PVD_main_program(before_kind, after_kind, before_data, after_data) ==
    LET before_items == PVD_extract_debt_items_of(before_kind, before_data)
        after_items == PVD_extract_debt_items_of(after_kind, after_data)
        result == PVD_main(before_items, after_items)
    IN  IF before_kind = "denied"
        THEN Raised("PermissionError", before_kind, after_kind)
        ELSE IF before_kind = "missing"
        THEN Written(LoadFailureDoc("Failed to load before debtmap",
                                    {"before"}), before_kind, after_kind)
        ELSE IF after_kind = "denied"
        THEN Raised("PermissionError", before_kind, after_kind)
        ELSE IF after_kind = "missing"
        THEN Written(LoadFailureDoc("Failed to load after debtmap",
                                    {"after"}), before_kind, after_kind)
        ELSE IF \/ before_kind = "items" /\ before_items # <<>>
                \/ after_kind = "items" /\ after_items # <<>>
        THEN Raised("TypeError", before_kind, after_kind)
        ELSE Written([completion_percentage |-> result.completion_percentage,
                      status |-> result.status,
                      improvements |->
                          PVD_format_improvements(result.comparison,
                                                  result.before_metrics,
                                                  result.after_metrics),
                      remaining_issues |->
                          PVD_format_remaining_issues(result.comparison,
                                                      result.after_metrics),
                      gaps |-> result.gaps,
                      computed |-> TRUE],
                     before_kind, after_kind)

\* self.before_data.get('items', [])
DV_items_of(kind, data) == IF kind = "items" THEN data ELSE <<>>

\* main(): validate() and the writing of the document.  load_data()
\* catches every exception.
DV_main(before_kind, after_kind, before_data, after_data, order) ==
    LET result == DV_validate(DV_items_of(before_kind, before_data),
                              DV_items_of(after_kind, after_data), order)
        critical == Len(DV_categorize_items(result.after_items).critical)
    IN  IF {before_kind, after_kind} \cap {"missing", "denied"} # {}
        THEN Written(LoadFailureDoc(
                         "Unable to load or parse debtmap JSON files", {}),
                     before_kind, after_kind)
        ELSE Written([completion_percentage |-> result.completion_percentage,
                      status |-> result.status,
                      improvements |->
                          AppendIf(AppendIf(<<>>,
                              result.comparison.resolved # <<>>,
                              Message("Resolved debt items",
                                      Len(result.comparison.resolved), {})),
                              result.comparison.improved # <<>>,
                              Message("Improved debt items",
                                      Len(result.comparison.improved), {})),
                      remaining_issues |->
                          AppendIf(AppendIf(<<>>,
                              critical > 0,
                              Message("critical debt items still present",
                                      critical, {})),
                              result.comparison.new_items # <<>>,
                              Message("new debt items introduced",
                                      Len(result.comparison.new_items), {})),
                      gaps |-> result.gaps,
                      computed |-> TRUE],
                     before_kind, after_kind)

(***************************************************************************)
(* State machine: the two reports are written entry by entry, then one of  *)
(* the programs is run on them.  A report holds entries of one format:     *)
(* Items (the validators and analyze_debt*.py) or CDItems (compare_debt).  *)
(***************************************************************************)
NoOut == [score |-> RInt(0)]

NoProg == [name |-> "none", shape |-> "none"]

\* Every entry of both reports is of the format S.
AllIn(S) ==
    /\ \A i \in 1..Len(before) : before[i] \in S
    /\ \A i \in 1..Len(after) : after[i] \in S

Init ==
    /\ before = <<>>
    /\ after = <<>>
    /\ pc = "load"
    /\ prog = NoProg
    /\ out = NoOut

AddBefore(item) ==
    /\ pc = "load"
    /\ Len(before) + Len(after) < MaxItems
    /\ before' = Append(before, item)
    /\ UNCHANGED <<after, pc, prog, out>>

AddAfter(item) ==
    /\ pc = "load"
    /\ Len(before) + Len(after) < MaxItems
    /\ after' = Append(after, item)
    /\ UNCHANGED <<before, pc, prog, out>>

Run(name, shape, result) ==
    /\ pc = "load"
    /\ pc' = "done"
    /\ prog' = [name |-> name, shape |-> shape]
    /\ out' = result
    /\ UNCHANGED <<before, after>>

\* main() of prodigy-validate-debtmap-improvement.py, both files loaded;
\* shape is the container key of the two documents
RunPV(shape) ==
    /\ AllIn(Items)
    /\ Run("PV", shape, PV_generate_validation_result(shape, before, after))

\* main() of prodigy_validate_debtmap.py, both files loaded
RunPVD ==
    /\ AllIn(Items)
    /\ Run("PVD", "debt_items", PVD_main(before, after))

\* DebtmapValidator.validate()
RunDV ==
    /\ AllIn(Items)
    /\ \E order \in SetOrders(Locations) :
           Run("DV", "items", DV_validate(before, after, order))

\* analyze_debt.py
RunAD ==
    /\ AllIn(Items)
    /\ Run("AD", "items", AD_analyze_debt_changes(before, after))

\* analyze_debt_changes.py
RunADC ==
    /\ AllIn(ADCItems)
    /\ Run("ADC", "items", ADC_analyze_changes(before, after))

\* analyze_debt_improvements.py
RunADI ==
    /\ AllIn(ADIItems)
    /\ Run("ADI", "items", ADI_analyze_debt_changes(before, after))

\* generate_commit_message.py
RunGCM ==
    /\ AllIn(ADIItems)
    /\ Run("GCM", "items", generate_commit_message(before, after))

\* compare_debt.py
RunCD ==
    /\ AllIn(CDItems)
    /\ Run("CD", "items", CD_analyze_changes(before, after))

LoadItems ==
    /\ AllIn(Items)
    /\ \/ \E item \in Items : AddBefore(item)
       \/ \E item \in Items : AddAfter(item)

LoadADCItems ==
    /\ AllIn(ADCItems)
    /\ \/ \E item \in ADCItems : AddBefore(item)
       \/ \E item \in ADCItems : AddAfter(item)

LoadADIItems ==
    /\ AllIn(ADIItems)
    /\ \/ \E item \in ADIItems : AddBefore(item)
       \/ \E item \in ADIItems : AddAfter(item)

LoadCDItems ==
    /\ AllIn(CDItems)
    /\ \/ \E item \in CDItems : AddBefore(item)
       \/ \E item \in CDItems : AddAfter(item)

\* A report that was not parsed, or has no container key, has no entries.
Holds(kind, data) == kind \in {"items", "debt_items"} \/ data = <<>>

\* main() of prodigy-validate-debtmap-improvement.py
RunPVMain ==
    /\ AllIn(Items)
    /\ \E pair \in FilePairs, output \in OutputPaths :
           /\ Holds(pair[1], before)
           /\ Holds(pair[2], after)
           /\ Run("PV_main", output,
                  PV_main(pair[1], pair[2], output, before, after))

\* main() of prodigy_validate_debtmap.py
RunPVDMain ==
    /\ AllIn(Items)
    /\ \E pair \in FilePairs :
           /\ Holds(pair[1], before)
           /\ Holds(pair[2], after)
           /\ Run("PVD_main", "dir",
                  PVD_main_program(pair[1], pair[2], before, after))

\* main() of validate_debtmap_improvement.py
RunDVMain ==
    /\ AllIn(Items)
    /\ \E pair \in FilePairs, order \in SetOrders(Locations) :
           /\ Holds(pair[1], before)
           /\ Holds(pair[2], after)
           /\ Run("DV_main", "dir",
                  DV_main(pair[1], pair[2], before, after, order))

\* The entries of one container are loaded.
LoadFunctions ==
    /\ after = <<>>
    /\ AllIn(LegacyFunctions)
    /\ \E func \in LegacyFunctions : AddBefore(func)

LoadCDEntries ==
    /\ after = <<>>
    /\ AllIn(CDEntries)
    /\ \E entry \in CDEntries : AddBefore(entry)

\* extract_debt_items of prodigy-validate-debtmap-improvement.py on a
\* document with the "functions" container
RunPVExtract ==
    /\ AllIn(LegacyFunctions)
    /\ Run("PV_extract", "functions",
           [items |-> PV_extract_debt_items("functions", before)])

\* extract_debt_items of prodigy_validate_debtmap.py on a document with the
\* "functions" container
RunPVDExtract ==
    /\ AllIn(LegacyFunctions)
    /\ Run("PVD_extract", "functions",
           [items |-> PVD_extract_debt_items_of("functions", before)])

\* extract_items of compare_debt.py
RunCDExtract ==
    /\ AllIn(CDEntries)
    /\ Run("CD_extract", "items", [items |-> CD_extract_items(before)])

\* The normalisers.
NextExtract ==
    \/ LoadFunctions
    \/ LoadCDEntries
    \/ RunPVExtract
    \/ RunPVDExtract
    \/ RunCDExtract

SpecExtract == Init /\ [][NextExtract]_vars

\* Reports of critical items at up to four locations.
GapLocations == {"a:f", "b:g", "c:h", "d:i"}

GapScores == {8, 20, 30}

GapItems == [location : GapLocations, score : GapScores, complexity : {0}]

\* The same item is in the before and in the after report.
LoadUnchanged ==
    /\ pc = "load"
    /\ before = after
    /\ AllIn(GapItems)
    /\ Len(before) < MaxGapItems
    /\ \E item \in GapItems :
           /\ before' = Append(before, item)
           /\ after' = Append(after, item)
    /\ UNCHANGED <<pc, prog, out>>

RunPVGaps ==
    /\ AllIn(GapItems)
    /\ Run("PV", "debt_items",
           PV_generate_validation_result("debt_items", before, after))

RunPVDGaps ==
    /\ AllIn(GapItems)
    /\ Run("PVD", "debt_items", PVD_main(before, after))

RunDVGaps ==
    /\ AllIn(GapItems)
    /\ \E order \in SetOrders({before[i].location : i \in 1..Len(before)}) :
           Run("DV", "items", DV_validate(before, after, order))

\* The validators on reports of unchanged critical items.
NextGaps ==
    \/ LoadUnchanged
    \/ RunPVGaps
    \/ RunPVDGaps
    \/ RunDVGaps

SpecGaps == Init /\ [][NextGaps]_vars

\* Reports whose entries are all present in both snapshots.
PairLocations == {"a:f", "b:g"}

\* The scores of the other reports, and a score that falls from 1000 to 1.
PairItems ==
    [location : PairLocations, score : Scores \cup {1, 1000},
     complexity : Complexities]

\* An entry of the before report and the entry of the after report at the
\* same location.
LoadPair ==
    /\ pc = "load"
    /\ Len(before) = Len(after)
    /\ AllIn(PairItems)
    /\ Len(before) < MaxPairs
    /\ \E b \in PairItems, a \in PairItems :
           /\ b.location = a.location
           /\ before' = Append(before, b)
           /\ after' = Append(after, a)
    /\ UNCHANGED <<pc, prog, out>>

RunPVPairs ==
    /\ AllIn(PairItems)
    /\ Run("PV", "debt_items",
           PV_generate_validation_result("debt_items", before, after))

RunPVDPairs ==
    /\ AllIn(PairItems)
    /\ Run("PVD", "debt_items", PVD_main(before, after))

RunDVPairs ==
    /\ AllIn(PairItems)
    /\ \E order \in SetOrders(PairLocations) :
           Run("DV", "items", DV_validate(before, after, order))

\* The validators on reports of common items.
NextPairs ==
    \/ LoadPair
    \/ RunPVPairs
    \/ RunPVDPairs
    \/ RunDVPairs

SpecPairs == Init /\ [][NextPairs]_vars

\* The reports of a main program hold up to MaxMainItems entries.
LoadMainItems ==
    /\ Len(before) + Len(after) < MaxMainItems
    /\ LoadItems

\* The main programs of the validators.
NextMain ==
    \/ LoadMainItems
    \/ RunPVMain
    \/ RunPVDMain
    \/ RunDVMain

SpecMain == Init /\ [][NextMain]_vars

\* The three validators.
Next ==
    \/ LoadItems
    \/ \E shape \in {"items", "debt_items"} : RunPV(shape)
    \/ RunPVD
    \/ RunDV

Spec == Init /\ [][Next]_vars

\* The change analysers.
NextAnalyze ==
    \/ LoadItems
    \/ LoadADCItems
    \/ LoadADIItems
    \/ LoadCDItems
    \/ RunAD
    \/ RunADC
    \/ RunADI
    \/ RunGCM
    \/ RunCD

SpecAnalyze == Init /\ [][NextAnalyze]_vars

(***************************************************************************)
(* Properties.                                                             *)
(***************************************************************************)
Done(names) == pc = "done" /\ prog.name \in names

\* The identities of the two reports as compare_debt.py keys them.
CDKeysOf(data) ==
    {CD_get_item_key(CD_extract_item(data[i])) : i \in 1..Len(data)}

\* The identities of the two reports, by location.
LocationsOf(data) == {data[i].location : i \in 1..Len(data)}

\* C1: the identity matcher of compare_debt.py and analyze_debt.py yields
\* resolved = before_keys \ after_keys, new = after_keys \ before_keys and
\* common = before_keys /\ after_keys, where the key sets are the identities
\* of the items of the two reports; the three sets are pairwise disjoint and
\* their union is before_keys \/ after_keys.
C1_IdentityPartition ==
    Done({"AD", "CD"}) =>
        LET bk == IF prog.name = "CD" THEN CDKeysOf(before)
                  ELSE LocationsOf(before)
            ak == IF prog.name = "CD" THEN CDKeysOf(after)
                  ELSE LocationsOf(after)
            resolved == IF prog.name = "CD" THEN out.resolved_keys
                        ELSE out.resolved
            new == IF prog.name = "CD" THEN out.new_keys ELSE out.new_items
            common == IF prog.name = "CD" THEN out.common_keys ELSE out.common
        IN  /\ out.before_keys = bk
            /\ out.after_keys = ak
            /\ resolved = bk \ ak
            /\ new = ak \ bk
            /\ common = bk \cap ak
            /\ resolved \cap new = {}
            /\ resolved \cap common = {}
            /\ new \cap common = {}
            /\ resolved \cup new \cup common = bk \cup ak

\* C1 witness: compare_debt.py ran on reports with a resolved and a common key.
C1_Witness ==
    /\ Done({"CD"})
    /\ out.resolved_keys # {}
    /\ out.common_keys # {}

\* C2: the composite improvement score of each of the three validators lies
\* in the closed range [0, 100].
C2_ScoreInRange ==
    Done({"PV", "PVD", "DV"}) =>
        /\ RLe(RInt(0), out.score)
        /\ RLe(out.score, RInt(100))

\* C2 witness: a validation whose weighted sum was negative before the clamp.
C2_Witness ==
    /\ Done({"PV"})
    /\ RLt(PV_weighted_sum(out.sub_scores), RInt(0))

\* The status the score thresholds 75 and 40 give.
StatusOf(score) ==
    IF RLe(RInt(75), score) THEN "complete"
    ELSE IF RLe(RInt(40), score) THEN "incomplete"
    ELSE "failed"

\* C3: the reported status is complete when score >= 75, incomplete when
\* 40 <= score < 75 and failed when score < 40, in every validator.
C3_StatusFromScore ==
    Done({"PV", "PVD", "DV"}) => out.status = StatusOf(out.score)

\* No identity is resolved, new, improved or regressed.
NothingChanged ==
    /\ prog.name = "PV" =>
        /\ out.improvements.resolved_items = <<>>
        /\ out.improvements.new_items = <<>>
        /\ out.improvements.improved_items = <<>>
    /\ prog.name = "PVD" =>
        /\ out.comparison.resolved = <<>>
        /\ out.comparison.new_items = <<>>
        /\ out.comparison.improved = <<>>
        /\ out.comparison.worsened = <<>>

\* C4 as stated: comparing a report with itself yields no resolved, new,
\* improved or regressed item, a composite score of exactly 0 and status
\* failed.
C4_SelfCompareScoresZero ==
    (Done({"PV", "PVD"}) /\ before = after) =>
        /\ NothingChanged
        /\ out.score = RInt(0)
        /\ out.status = "failed"

\* C4 as amended: comparing a report with itself yields no resolved, new,
\* improved or regressed item, a composite score of exactly 10 (the
\* no-new-critical sub-score of 100 at weight 0.1) and status failed.
C4_SelfCompareScoresTen ==
    (Done({"PV", "PVD"}) /\ before = after) =>
        /\ NothingChanged
        /\ out.score = RInt(10)
        /\ out.status = "failed"

\* C4 witness: a non-empty report was validated against itself.
C4_Witness ==
    /\ Done({"PV"})
    /\ before = after
    /\ before # <<>>

\* The after report with the score of its i-th item set to s.
WithScore(items, i, s) == [items EXCEPT ![i].score = s]

\* C5: lowering the score of one item of the after report, everything else
\* unchanged, never lowers the composite score of
\* generate_validation_result.
C5_Monotone ==
    Done({"PV"}) =>
        \A i \in 1..Len(after) : \A s \in Scores :
            s < after[i].score =>
                RLe(out.score,
                    PV_generate_validation_result(
                        prog.shape, before, WithScore(after, i, s)).score)

\* C6: the entry of the location map for a key carries the sum of the scores
\* of the items of the report that have this key.
C6_MapSumsCollidingScores ==
    Done({"PV"}) =>
        LET items == out.before_items
            before_map == LocationMap(items)
            At(key) == {i \in 1..Len(items) : items[i].location = key}
            ScoreAt(key) ==
                SumInts([i \in 1..Len(items) |->
                            IF i \in At(key) THEN items[i].score ELSE 0])
        IN  \A key \in Keys(before_map) :
                DictGet(before_map, key).score = ScoreAt(key)

\* The score of the run's items (unified_score in DebtmapValidator).
ScoreIn(item) == IF prog.name = "DV" THEN item.unified_score ELSE item.score

\* The number of result lists of the comparison that hold the location.
ListsHolding(key) ==
    LET At(items) == IF \E i \in 1..Len(items) : items[i].location = key
                     THEN 1 ELSE 0
        AtItem(entries) ==
            IF \E i \in 1..Len(entries) : entries[i].item.location = key
            THEN 1 ELSE 0
    IN  IF prog.name = "PV"
        THEN At(out.improvements.resolved_items)
             + At(out.improvements.improved_items)
             + At(out.improvements.new_items)
             + At(out.improvements.unchanged_critical)
        ELSE IF prog.name = "PVD"
        THEN At(out.comparison.resolved) + AtItem(out.comparison.improved)
             + AtItem(out.comparison.worsened) + At(out.comparison.new_items)
             + At(out.comparison.unchanged_critical)
        ELSE At(out.comparison.resolved) + At(out.comparison.new_items)
             + At(out.comparison.improved)

\* The location is in both reports with the same score.
SameInBoth(key) ==
    /\ key \in LocationsOf(out.before_items) \cap LocationsOf(out.after_items)
    /\ ScoreIn(DictGet(LocationMap(out.before_items), key))
           = ScoreIn(DictGet(LocationMap(out.after_items), key))

\* C7: the comparison puts every identity of the two reports into exactly
\* one lifecycle state, never into two and never into none.  An identity
\* whose score is the same in both reports is allowed to be in no list
\* (unchanged by default).
C7_ExactlyOneState ==
    Done({"PV", "PVD", "DV"}) =>
        \A key \in LocationsOf(out.before_items)
                        \cup LocationsOf(out.after_items) :
            \/ ListsHolding(key) = 1
            \/ ListsHolding(key) = 0 /\ SameInBoth(key)

\* The classes the tolerance 0.01 on the score alone gives.
ByScoreAlone(before_score, after_score) ==
    IF RLt(after_score, RSub(before_score, Rat(1, 100))) THEN "improved"
    ELSE IF RLt(RAdd(before_score, Rat(1, 100)), after_score) THEN "regressed"
    ELSE "unchanged"

\* The last entry of the report that has the compare_debt.py key.
LastEntry(data, key) ==
    LET At == {i \in 1..Len(data) :
                  CD_get_item_key(CD_extract_item(data[i])) = key}
    IN  CD_extract_item(data[CHOOSE i \in At : \A j \in At : j <= i])

\* The final score of the last item of the report at the location.
LastScore(data, key) ==
    LET At == {i \in 1..Len(data) : data[i].location = key}
    IN  data[CHOOSE i \in At : \A j \in At : j <= i].final_score

\* The keys of the entries of a result list of compare_debt.py.
EntryKeys(entries) == {e.key : e \in entries}

\* The keys of the tuples of a result list of analyze_debt_changes.py.
TupleKeys(tuples) == {t[1] : t \in tuples}

C9_SubScoresFloored ==
    /\ Done({"PV"}) =>
        \A x \in {out.sub_scores.resolved_priority_score,
                  out.sub_scores.score_improvement_pct,
                  out.sub_scores.complexity_improvement_pct,
                  out.sub_scores.no_regression_score} :
            RLe(RInt(0), x) /\ RLe(x, RInt(100))
    /\ Done({"PVD"}) =>
        \A x \in {out.sub_scores.resolved_high_priority,
                  out.sub_scores.score_improvement,
                  out.sub_scores.complexity_reduction,
                  RSub(RInt(100), out.sub_scores.new_critical_penalty)} :
            RLe(RInt(0), x) /\ RLe(x, RInt(100))

\* The sub-score reported for critical resolution.
CriticalResolution ==
    IF prog.name = "PV" THEN out.sub_scores.resolved_priority_score
    ELSE IF prog.name = "PVD" THEN out.sub_scores.resolved_high_priority
    ELSE out.sub_scores.critical_resolved_pct

\* The number of items of the report with a score of at least the threshold.
CountAtLeast(items, threshold) ==
    Cardinality({i \in 1..Len(items) : ScoreIn(items[i]) >= threshold})

\* The number of resolved identities (in before, absent from after) whose
\* before score is at least the threshold.
ResolvedAtLeast(threshold) ==
    Cardinality({key \in LocationsOf(out.before_items)
                         \ LocationsOf(out.after_items) :
        ScoreIn(DictGet(LocationMap(out.before_items), key)) >= threshold})

\* C10 as stated: the critical-resolution sub-score is
\* resolved_critical_count / before_critical_count * 100, and 100 when the
\* before report has no critical item.
C10_CriticalResolutionVacuous ==
    Done({"PV", "PVD", "DV"}) =>
        LET threshold == IF prog.name = "DV" THEN CRITICAL_SCORE_THRESHOLD
                         ELSE 8
            before_critical == CountAtLeast(out.before_items, threshold)
        IN  CriticalResolution =
                IF before_critical = 0 THEN RInt(100)
                ELSE RMul(Rat(ResolvedAtLeast(threshold), before_critical),
                          RInt(100))

\* C10 as amended: in the two prodigy validators the sub-score is
\* resolved_critical_count / before_critical_count * 100 when the before
\* report has a critical item (score >= 8); when it has none the sub-score
\* is 0, except that prodigy_validate_debtmap.py then uses
\* resolved_high_count / before_high_count * 100 if the before report has an
\* item of score >= 6.  DebtmapValidator computes
\* max(0, (critical_before - critical_after) / critical_before * 100) over
\* the counts of items of score >= 20, and 0 when critical_before = 0.
C10_CriticalResolution ==
    /\ Done({"PV", "PVD"}) =>
        LET before_critical == CountAtLeast(out.before_items, 8)
            before_high == CountAtLeast(out.before_items, 6)
        IN  CriticalResolution =
                IF before_critical > 0
                THEN RMul(Rat(ResolvedAtLeast(8), before_critical), RInt(100))
                ELSE IF prog.name = "PVD" /\ before_high > 0
                THEN RMul(Rat(ResolvedAtLeast(6), before_high), RInt(100))
                ELSE RInt(0)
    /\ Done({"DV"}) =>
        LET critical_before ==
                CountAtLeast(out.before_items, CRITICAL_SCORE_THRESHOLD)
            critical_after ==
                CountAtLeast(out.after_items, CRITICAL_SCORE_THRESHOLD)
        IN  CriticalResolution =
                IF critical_before = 0 THEN RInt(0)
                ELSE RMax(RInt(0),
                          RMul(Rat(critical_before - critical_after,
                                   critical_before), RInt(100)))

\* C10 witness: a validation of a non-empty before report without a critical
\* item.
C10_Witness ==
    /\ Done({"PV"})
    /\ out.before_items # <<>>
    /\ out.before_metrics.critical_items = 0

\* The no-new-critical sub-score as the run reports it.
NoNewCritical ==
    IF prog.name = "PV" THEN out.sub_scores.no_regression_score
    ELSE IF prog.name = "PVD"
    THEN RSub(RInt(100), out.sub_scores.new_critical_penalty)
    ELSE out.sub_scores.no_regression_score

\* The critical threshold of the run's validator.
CriticalThreshold ==
    IF prog.name = "DV" THEN CRITICAL_SCORE_THRESHOLD ELSE 8

\* The number of new identities (in after, absent from before) whose after
\* score is critical.
NewCriticalCount ==
    Cardinality({key \in LocationsOf(out.after_items)
                         \ LocationsOf(out.before_items) :
        ScoreIn(DictGet(LocationMap(out.after_items), key))
            >= CriticalThreshold})

\* C11: the no-new-critical sub-score is 100 when no new item is critical
\* and max(0, 100 - 25 * n) for n new critical items, in every validator.
C11_PenaltySchedule ==
    Done({"PV", "PVD", "DV"}) =>
        NoNewCritical =
            IF NewCriticalCount = 0 THEN RInt(100)
            ELSE RInt(Max(0, 100 - 25 * NewCriticalCount))

\* The fields every result document has.
DocumentFields ==
    {"completion_percentage", "status", "improvements", "remaining_issues",
     "gaps"}

\* The report files of the run that could not be loaded.
Unreadable ==
    (IF out.before_kind \in {"missing", "denied"} THEN {"before"} ELSE {})
        \cup (IF out.after_kind \in {"missing", "denied"} THEN {"after"}
              ELSE {})

\* C12: every run of the main program of the two prodigy validators ends
\* with a result document written that has the five fields; no exception
\* escapes; when a report could not be loaded the document has
\* completion_percentage 0, status failed and an issue message that names
\* the unreadable file.
C12_DocumentAlwaysWritten ==
    Done({"PV_main", "PVD_main"}) =>
        /\ out.written
        /\ out.raised = "none"
        /\ DocumentFields \subseteq DOMAIN out.doc
        /\ Unreadable # {} =>
            /\ out.doc.completion_percentage = RInt(0)
            /\ out.doc.status = "failed"
            /\ \E i \in 1..Len(out.doc.remaining_issues) :
                   out.doc.remaining_issues[i].names \cap Unreadable # {}

\* The report files of the run that parsed but have none of the container
\* keys items, debt_items, functions.
WithoutContainer ==
    (IF out.before_kind = "none" THEN {"before"} ELSE {})
        \cup (IF out.after_kind = "none" THEN {"after"} ELSE {})

\* C13: a report that has none of the container keys is rejected: the run
\* of a main program on it never ends with a written document that holds
\* a computed comparison (the report is not taken as an empty list).
C13_NoContainerRejected ==
    (Done({"PV_main", "PVD_main", "DV_main"}) /\ Unreadable = {}
        /\ WithoutContainer # {})
        => ~(out.written /\ out.doc.computed)

\* C14: no percentage divides by zero: a run of analyze_debt_improvements.py
\* raises no ZeroDivisionError, and in compare_debt.py the change_pct of an
\* improved or regressed entry whose before score is 0 is 0.
C14_NoDivisionByZero ==
    /\ Done({"ADI"}) => out.raised = "none"
    /\ Done({"CD"}) =>
           \A e \in out.improved \cup out.regressed :
               e.before = RInt(0) => e.change_pct = RInt(0)

\* C15: every percentage of a result is a number that is not negative: the
\* completion_percentage of the validator's document, and the change_pct of
\* every improved and regressed entry of compare_debt.py.
C15_PercentagesNotNegative ==
    /\ Done({"PV"}) => RLe(RInt(0), out.completion_percentage)
    /\ Done({"CD"}) =>
           \A e \in out.improved \cup out.regressed :
               RLe(RInt(0), e.change_pct)

\* The locations of the items the run's comparison lists as resolved.
ResolvedLocations ==
    IF prog.name = "PV" THEN LocationsOf(out.improvements.resolved_items)
    ELSE LocationsOf(out.comparison.resolved)

\* The before report holds a critical item and the after report is empty.
AllCriticalGone ==
    /\ after = <<>>
    /\ CountAtLeast(out.before_items, CriticalThreshold) >= 1

\* C16: when the before report holds a critical item and the after report
\* is empty, every before identity is resolved, the critical-resolution
\* sub-score is 100, the composite score is at least 40 and the status is
\* incomplete or complete.
C16_EverythingResolved ==
    (Done({"PV", "DV"}) /\ AllCriticalGone) =>
        /\ ResolvedLocations = LocationsOf(out.before_items)
        /\ CriticalResolution = RInt(100)
        /\ RLe(RInt(40), out.score)
        /\ out.status \in {"incomplete", "complete"}

\* The composite score the run's validator gives the two reports.
CompositeOf(before_data, after_data) ==
    IF prog.name = "PV"
    THEN PV_generate_validation_result(prog.shape, before_data,
                                       after_data).score
    ELSE PVD_main(before_data, after_data).score

\* The items that can be added to the after report: the identity is in
\* neither report and the score the validator reads is critical.
FurtherCritical ==
    {item \in Items :
        /\ item.location \notin LocationsOf(before) \cup LocationsOf(after)
        /\ (IF prog.name = "PV"
            THEN PV_extract_debt_items(prog.shape, <<item>>)[1].score
            ELSE item.score) >= 8}

\* Before is one critical item and after is that item unchanged.
OneCriticalUnchanged ==
    /\ Len(before) = 1
    /\ after = before
    /\ out.before_items[1].score >= 8

\* C17: adding to the after report one further item whose identity is new
\* and whose score is critical never gives a higher composite score, and
\* gives a strictly lower one when before is one critical item and after
\* is that item unchanged.
C17_NewCriticalNeverHelps ==
    Done({"PV", "PVD"}) =>
        \A item \in FurtherCritical :
            /\ RLe(CompositeOf(before, Append(after, item)), out.score)
            /\ OneCriticalUnchanged =>
                   RLt(CompositeOf(before, Append(after, item)), out.score)

\* The aggregates the run's validator reports for the two reports.
Aggregates ==
    IF prog.name = "PV" THEN <<out.before_metrics, out.after_metrics>>
    ELSE <<out.before_summary, out.after_summary>>

\* Every aggregate of the summary is 0.
AllZero(summary) ==
    \A field \in DOMAIN summary :
        IF field \in {"average_score", "average_complexity",
                      "average_coverage"}
        THEN summary[field] = RInt(0)
        ELSE summary[field] = 0

\* C18: when both reports are empty every aggregate of the two summaries is
\* 0, the run ends without a division error, the status is failed and the
\* gap map is empty.
C18_EmptyReports ==
    (Done({"PV", "DV"}) /\ before = <<>> /\ after = <<>>) =>
        /\ AllZero(Aggregates[1])
        /\ AllZero(Aggregates[2])
        /\ out.status = "failed"
        /\ out.gaps = <<>>

\* C19: a run that reports the status complete reports an empty gap map;
\* a gap map that is not empty comes with a composite score below 75.
C19_NoGapsWhenComplete ==
    Done({"PV", "PVD", "DV"}) =>
        /\ out.status = "complete" => out.gaps = <<>>
        /\ out.gaps # <<>> => RLt(out.score, RInt(75))

\* A complete run of prodigy-validate-debtmap-improvement.py whose after
\* report holds a new critical item, of which identify_gaps would make a
\* regression gap.
C19_CompleteWithNewCritical ==
    /\ Done({"PV"})
    /\ out.status = "complete"
    /\ \E i \in 1..Len(out.improvements.new_items) :
           out.improvements.new_items[i].score >= 8
    /\ PV_identify_gaps(out.improvements, out.after_items, out.score) # <<>>

\* The reports that hold the items of a report in another order.
Reordered(items) ==
    {[i \in 1..Len(items) |-> items[order[i]]] :
        order \in SetOrders(1..Len(items))}

\* The pairs <<gap id, location>> of a gap map.
GapIds(gaps) == {<<gaps[i].key, gaps[i].value.location>> : i \in 1..Len(gaps)}

\* The gap maps the run's validator gives the two reports.
GapsOf(before_data, after_data) ==
    IF prog.name = "PV"
    THEN {PV_generate_validation_result(prog.shape, before_data,
                                        after_data).gaps}
    ELSE IF prog.name = "PVD"
    THEN {PVD_main(before_data, after_data).gaps}
    ELSE {DV_validate(before_data, after_data, order).gaps :
             order \in SetOrders(Locations)}

\* The locations of the items of which identify_gaps of
\* prodigy-validate-debtmap-improvement.py makes a gap.
GapWorthy ==
    LocationsOf(out.improvements.unchanged_critical)
        \cup {out.improvements.improved_items[i].location :
                 i \in {j \in 1..Len(out.improvements.improved_items) :
                           out.improvements.improved_items[j].after_score
                               >= 8}}
        \cup {out.improvements.new_items[i].location :
                 i \in {j \in 1..Len(out.improvements.new_items) :
                           out.improvements.new_items[j].score >= 8}}

\* C20: gap ids come from the location alone: no gap record of an item
\* overwrites that of an item at another location, and the id of an item's
\* gap is the same whatever the order of the items in the two reports.
C20_GapIdsFromLocation ==
    /\ (Done({"PV"}) /\ RLt(out.score, RInt(75))) =>
           GapWorthy = {out.gaps[i].value.location : i \in 1..Len(out.gaps)}
    /\ Done({"PV", "PVD", "DV"}) =>
           \A b \in Reordered(before), a \in Reordered(after) :
               \E gaps \in GapsOf(b, a) : GapIds(gaps) = GapIds(out.gaps)

\* C21: the normaliser gives one canonical item for each entry of the
\* container: no entry is dropped for a missing or zero optional field or
\* for its tag.
C21_OneItemPerEntry ==
    Done({"PV_extract", "PVD_extract", "CD_extract"}) =>
        Len(out.items) = Len(before)

\* C22: the canonical score of an item of the "items" container is its
\* explicit unified final score, which every item of the reports carries,
\* and is never negative.
C22_ExplicitScoreKept ==
    (Done({"PV"}) /\ prog.shape = "items") =>
        /\ \A i \in 1..Len(before) :
               /\ out.before_items[i].score = before[i].score
               /\ out.before_items[i].score >= 0
        /\ \A i \in 1..Len(after) :
               /\ out.after_items[i].score = after[i].score
               /\ out.after_items[i].score >= 0

\* The score the run's validator read for the location in the report.
ScoreAt(items, key) == ScoreIn(DictGet(LocationMap(items), key))

\* The locations of the items in both reports.
CommonLocations ==
    LocationsOf(out.before_items) \cap LocationsOf(out.after_items)

\* The gap map holds a record for the location that meets the condition.
HasGap(key, Meets(_)) ==
    \E i \in 1..Len(out.gaps) :
        /\ out.gaps[i].value.location = key
        /\ Meets(out.gaps[i].value)

\* C23: when the status is not complete, every item that is critical in
\* both reports and did not improve has a gap record of severity critical
\* with its before score as original_score and its after score as
\* current_score; every item that improved and is still critical has a gap
\* record of severity high or medium that carries a target score.
C23_UnresolvedCriticalGaps ==
    (Done({"PV"}) /\ out.status # "complete") =>
        \A key \in CommonLocations :
            LET before_score == ScoreAt(out.before_items, key)
                after_score == ScoreAt(out.after_items, key)
                Unresolved(gap) ==
                    /\ gap.severity = "critical"
                    /\ gap.original_score = before_score
                    /\ gap.current_score = after_score
                Insufficient(gap) ==
                    /\ gap.severity \in {"high", "medium"}
                    /\ "target_score" \in DOMAIN gap
            IN  /\ (before_score >= 8 /\ after_score >= before_score)
                       => HasGap(key, Unresolved)
                /\ (after_score >= 8 /\ after_score < before_score)
                       => HasGap(key, Insufficient)

\* The locations of the items that are critical in both reports and did
\* not improve.
UnresolvedCritical ==
    {key \in CommonLocations :
        /\ ScoreAt(out.before_items, key) >= CriticalThreshold
        /\ ScoreAt(out.after_items, key) >= ScoreAt(out.before_items, key)}

\* The gap records for a critical item still present.
UnresolvedGaps ==
    SelectSeq(out.gaps,
              LAMBDA gap : gap.key[1] \in {"critical_debt",
                                           "critical_debt_remaining"})

\* C24: at most 3 gap records are emitted for the unresolved critical
\* items, and no unresolved critical item is left out while one with a
\* strictly lower score is emitted.
C24_TopThreeCritical ==
    Done({"PV", "PVD", "DV"}) =>
        /\ Len(UnresolvedGaps) <= 3
        /\ \A key \in UnresolvedCritical :
               \/ \E i \in 1..Len(UnresolvedGaps) :
                      UnresolvedGaps[i].value.location = key
               \/ \A i \in 1..Len(UnresolvedGaps) :
                      ScoreAt(out.after_items,
                              UnresolvedGaps[i].value.location)
                          >= ScoreAt(out.after_items, key)

\* C25: when the status is not complete, every item of both reports whose
\* score rose has a gap record, which carries the after score as
\* current_score.
C25_RegressionGaps ==
    (Done({"PV", "PVD", "DV"}) /\ out.status # "complete") =>
        \A key \in CommonLocations :
            LET after_score == ScoreAt(out.after_items, key)
                Regressed(gap) == gap.current_score = after_score
            IN  after_score > ScoreAt(out.before_items, key)
                    => HasGap(key, Regressed)

\* The locations of the new items (absent from the before report) whose
\* score is critical.
NewCriticalLocations ==
    {key \in LocationsOf(out.after_items) \ LocationsOf(out.before_items) :
        ScoreAt(out.after_items, key) >= CriticalThreshold}

\* The gap records for a new critical item.
NewCriticalGaps ==
    SelectSeq(out.gaps,
              LAMBDA gap : gap.key[1] \in {"regression", "new_critical_debt",
                                           "regression_detected"}
                               /\ gap.value.original_score = NoScore)

\* C26: when the status is not complete, every new item whose score is
\* critical has a gap record for a new critical item, of severity critical,
\* with no original score and the item's score as current_score.
C26_NewCriticalGaps ==
    (Done({"PV", "PVD", "DV"}) /\ out.status # "complete") =>
        \A key \in NewCriticalLocations :
            \E i \in 1..Len(NewCriticalGaps) :
                /\ NewCriticalGaps[i].value.location = key
                /\ NewCriticalGaps[i].value.severity = "critical"
                /\ NewCriticalGaps[i].value.current_score
                       = ScoreAt(out.after_items, key)

\* The sum of the full score of the items of a snapshot that carry a tag.
RECURSIVE TaggedScore(_, _)
TaggedScore(items, category) ==
    IF items = <<>> THEN 0
    ELSE (IF \E i \in 1..Len(Head(items).categories) :
                 Head(items).categories[i] = category
          THEN Head(items).final_score ELSE 0)
             + TaggedScore(Tail(items), category)

\* C27: for each snapshot and each category tag, the per-category sum is the
\* sum of the full score of the items of that snapshot carrying the tag; no
\* item's score is added to a category more than once.
C27_CategorySums ==
    Done({"GCM"}) =>
        \A category \in DOMAIN out.category_improvements :
            /\ out.category_improvements[category].before
                   = TaggedScore(before, category)
            /\ out.category_improvements[category].after
                   = TaggedScore(after, category)

\* What a result document tells of a comparison.
Verdict(result) ==
    [completion_percentage |-> result.completion_percentage,
     status |-> result.status,
     gaps |-> result.gaps]

\* C28: a comparison is a function of its two inputs alone: a validator run
\* again on the same before and after snapshots returns the completion
\* percentage, the status and the gap records it returned.
C28_SameResultAgain ==
    /\ Done({"PV"}) =>
           Verdict(out) = Verdict(PV_generate_validation_result(
                                      prog.shape, before, after))
    /\ Done({"PVD"}) => Verdict(out) = Verdict(PVD_main(before, after))
    /\ Done({"DV"}) =>
           \A order \in SetOrders(PairLocations) :
               Verdict(DV_validate(before, after, order)) = Verdict(out)

\* The results the run's validator gives the two reports.
ResultsOf(before_data, after_data) ==
    IF prog.name = "PV"
    THEN {PV_generate_validation_result(prog.shape, before_data, after_data)}
    ELSE IF prog.name = "PVD"
    THEN {PVD_main(before_data, after_data)}
    ELSE {DV_validate(before_data, after_data, order) :
              order \in SetOrders(Locations)}

\* The gap records of a gap map, without their ids.
GapRecords(gaps) == {gaps[i].value : i \in 1..Len(gaps)}

\* C29: the result of a comparison (the composite score, the status and the
\* set of gap records) is the same for every order of the items inside the
\* before snapshot and inside the after snapshot, also when several items
\* share one identity.
C29_OrderOfItems ==
    Done({"PV", "PVD", "DV"}) =>
        \A b \in Reordered(before), a \in Reordered(after) :
            \E result \in ResultsOf(b, a) :
                /\ result.score = out.score
                /\ result.status = out.status
                /\ GapRecords(result.gaps) = GapRecords(out.gaps)

\* C30: in a result document of generate_validation_result the status agrees
\* with the completion percentage, the score rounded to one decimal: the
\* status is complete exactly when the percentage is at least 75 and failed
\* exactly when it is below 40, and gaps is empty exactly when the percentage
\* is at least 75.
C30_StatusAgreesWithPercentage ==
    Done({"PV", "PVD"}) =>
        /\ out.status = "complete"
               <=> RLe(RInt(75), out.completion_percentage)
        /\ out.status = "failed" <=> RLt(out.completion_percentage, RInt(40))
        /\ out.gaps = <<>> <=> RLe(RInt(75), out.completion_percentage)

====
